---- MODULE Spec2Model ----
(***************************************************************************)
(* The RAG retrieval-and-conversation engine of services/rag_service.py    *)
(* (class RAGService) and the /chat endpoint of routes/api_routes.py that  *)
(* calls it.                                                               *)
(*                                                                         *)
(* Texts are TLA+ strings; where the code looks inside a text (lower(),    *)
(* the `in` substring test) the text is taken as its sequence of           *)
(* characters, Chars(s).  Embedding vectors are vectors of integers and a  *)
(* cosine similarity is kept as an exact fraction.                         *)
(***************************************************************************)
EXTENDS Integers, Sequences, FiniteSets, TLC

VARIABLES
  db,                      \* TRUE iff the module-level Firestore handle `db` is not None
  api_key,                 \* TRUE iff GEMINI_API_KEY is configured
  encoder,                 \* the vector the embedding model gives the text of catalog entry i
  educational_embeddings,  \* RAGService.educational_embeddings: None or the index
  store,                   \* Firestore: user_id -> the set of documents of that user's conversation_memory
  req,                     \* the /chat requests in the server, one per slot
  loop,                    \* the slot whose handler the event loop is running, 0 when it is free
  served,                  \* number of /chat requests received so far
  faults,                  \* number of failures of external calls so far
  call,                    \* one call of get_educational_knowledge: its arguments and what it returned
  inf,                     \* one call of infer_subject: its text and what it returned
  sources,                 \* the directory 'knowledge_base': whether it exists and what each JSON file holds
  knowledge_base,          \* RAGService.knowledge_base: kb_name -> the parsed file
  embeddings,              \* RAGService.embeddings: kb_name -> {'data', 'embeddings'}
  boot                     \* the construction of RAGService: where it is and what happened

vars == <<db, api_key, encoder, educational_embeddings, store, req, loop, served, faults, call,
          inf, sources, knowledge_base, embeddings, boot>>

\* the variables of the construction and of the single call of infer_subject
Side == <<inf, sources, knowledge_base, embeddings, boot>>

None == "None"

(***************************************************************************)
(* Bounds                                                                  *)
(***************************************************************************)
MaxTopK == 3
MaxPrior == 5
MaxRequests == 2
MaxFaults == 1

(***************************************************************************)
(* Texts                                                                   *)
(***************************************************************************)
Chars(s) ==
  CASE s = "" -> <<>>
    [] s = "Math" -> <<"M", "a", "t", "h">>
    [] s = "Science" -> <<"S", "c", "i", "e", "n", "c", "e">>
    [] s = "Social" -> <<"S", "o", "c", "i", "a", "l">>
    [] s = "English" -> <<"E", "n", "g", "l", "i", "s", "h">>
    [] s = "science" -> <<"s", "c", "i", "e", "n", "c", "e">>
    [] s = "S" -> <<"S">>
    [] s = "Art" -> <<"A", "r", "t">>
    [] s = "math" -> <<"m", "a", "t", "h">>
    [] s = "e" -> <<"e">>
    [] s = "   " -> <<" ", " ", " ">>
    [] s = "u1" -> <<"u", "1">>
    [] s = "u2" -> <<"u", "2">>
    [] s = "at" -> <<"a", "t">>
    [] s = "om" -> <<"o", "m">>
    [] s = " and " -> <<" ", "a", "n", "d", " ">>
    [] s = "and" -> <<"a", "n", "d">>
    [] s = " u1 " -> <<" ", "u", "1", " ">>
    [] s = " Summarize this poem " -> <<" ", "S", "u", "m", "m", "a", "r", "i", "z", "e", " ", "t", "h", "i", "s", " ", "p", "o", "e", "m", " ">>
    [] s = "What are ecosystems?" -> <<"W", "h", "a", "t", " ", "a", "r", "e", " ", "e", "c", "o", "s", "y", "s", "t", "e", "m", "s", "?">>
    [] s = "Summarize this poem" -> <<"S", "u", "m", "m", "a", "r", "i", "z", "e", " ", "t", "h", "i", "s", " ", "p", "o", "e", "m">>
    [] s = "Solve this algebra equation" -> <<"S", "o", "l", "v", "e", " ", "t", "h", "i", "s", " ", "a", "l", "g", "e", "b", "r", "a", " ", "e", "q", "u", "a", "t", "i", "o", "n">>
    [] s = "Describe the water cycle" -> <<"D", "e", "s", "c", "r", "i", "b", "e", " ", "t", "h", "e", " ", "w", "a", "t", "e", "r", " ", "c", "y", "c", "l", "e">>
    [] s = "Tell me about the Civil War" -> <<"T", "e", "l", "l", " ", "m", "e", " ", "a", "b", "o", "u", "t", " ", "t", "h", "e", " ", "C", "i", "v", "i", "l", " ", "W", "a", "r">>
    [] s = "What is 2+2 and how do plants grow?" -> <<"W", "h", "a", "t", " ", "i", "s", " ", "2", "+", "2", " ", "a", "n", "d", " ", "h", "o", "w", " ", "d", "o", " ", "p", "l", "a", "n", "t", "s", " ", "g", "r", "o", "w", "?">>
    [] s = "algebra" -> <<"a", "l", "g", "e", "b", "r", "a">>
    [] s = "geometry" -> <<"g", "e", "o", "m", "e", "t", "r", "y">>
    [] s = "equation" -> <<"e", "q", "u", "a", "t", "i", "o", "n">>
    [] s = "theorem" -> <<"t", "h", "e", "o", "r", "e", "m">>
    [] s = "fraction" -> <<"f", "r", "a", "c", "t", "i", "o", "n">>
    [] s = "decimal" -> <<"d", "e", "c", "i", "m", "a", "l">>
    [] s = "multiplication" -> <<"m", "u", "l", "t", "i", "p", "l", "i", "c", "a", "t", "i", "o", "n">>
    [] s = "division" -> <<"d", "i", "v", "i", "s", "i", "o", "n">>
    [] s = "linear" -> <<"l", "i", "n", "e", "a", "r">>
    [] s = "function" -> <<"f", "u", "n", "c", "t", "i", "o", "n">>
    [] s = "biology" -> <<"b", "i", "o", "l", "o", "g", "y">>
    [] s = "physics" -> <<"p", "h", "y", "s", "i", "c", "s">>
    [] s = "chemistry" -> <<"c", "h", "e", "m", "i", "s", "t", "r", "y">>
    [] s = "ecosystem" -> <<"e", "c", "o", "s", "y", "s", "t", "e", "m">>
    [] s = "water cycle" -> <<"w", "a", "t", "e", "r", " ", "c", "y", "c", "l", "e">>
    [] s = "photosynthesis" -> <<"p", "h", "o", "t", "o", "s", "y", "n", "t", "h", "e", "s", "i", "s">>
    [] s = "energy" -> <<"e", "n", "e", "r", "g", "y">>
    [] s = "motion" -> <<"m", "o", "t", "i", "o", "n">>
    [] s = "cell" -> <<"c", "e", "l", "l">>
    [] s = "atom" -> <<"a", "t", "o", "m">>
    [] s = "history" -> <<"h", "i", "s", "t", "o", "r", "y">>
    [] s = "war" -> <<"w", "a", "r">>
    [] s = "ancient" -> <<"a", "n", "c", "i", "e", "n", "t">>
    [] s = "revolution" -> <<"r", "e", "v", "o", "l", "u", "t", "i", "o", "n">>
    [] s = "civil war" -> <<"c", "i", "v", "i", "l", " ", "w", "a", "r">>
    [] s = "geography" -> <<"g", "e", "o", "g", "r", "a", "p", "h", "y">>
    [] s = "culture" -> <<"c", "u", "l", "t", "u", "r", "e">>
    [] s = "government" -> <<"g", "o", "v", "e", "r", "n", "m", "e", "n", "t">>
    [] s = "social" -> <<"s", "o", "c", "i", "a", "l">>
    [] s = "english" -> <<"e", "n", "g", "l", "i", "s", "h">>
    [] s = "literature" -> <<"l", "i", "t", "e", "r", "a", "t", "u", "r", "e">>
    [] s = "grammar" -> <<"g", "r", "a", "m", "m", "a", "r">>
    [] s = "writing" -> <<"w", "r", "i", "t", "i", "n", "g">>
    [] s = "poem" -> <<"p", "o", "e", "m">>
    [] s = "story" -> <<"s", "t", "o", "r", "y">>
    [] s = "reading" -> <<"r", "e", "a", "d", "i", "n", "g">>
    [] s = "[U+274C] Error: Gemini API key not configured. Please set your GEMINI_API_KEY environment variable." ->
      <<"U+274C", " ", "E", "r", "r", "o", "r", ":", " ", "G", "e", "m", "i", "n", "i",
        " ", "A", "P", "I", " ", "k", "e", "y", " ", "n", "o", "t", " ", "c", "o", "n",
        "f", "i", "g", "u", "r", "e", "d", ".", " ", "P", "l", "e", "a", "s", "e", " ",
        "s", "e", "t", " ", "y", "o", "u", "r", " ", "G", "E", "M", "I", "N", "I", "_",
        "A", "P", "I", "_", "K", "E", "Y", " ", "e", "n", "v", "i", "r", "o", "n", "m",
        "e", "n", "t", " ", "v", "a", "r", "i", "a", "b", "l", "e", ".">>
    [] s = "I'm sorry, I couldn't generate a response. Please try again." ->
      <<"I", "'", "m", " ", "s", "o", "r", "r", "y", ",", " ", "I", " ", "c", "o", "u",
        "l", "d", "n", "'", "t", " ", "g", "e", "n", "e", "r", "a", "t", "e", " ", "a",
        " ", "r", "e", "s", "p", "o", "n", "s", "e", ".", " ", "P", "l", "e", "a", "s",
        "e", " ", "t", "r", "y", " ", "a", "g", "a", "i", "n", ".">>
    [] s = "I'm sorry, the request timed out. Please try again." ->
      <<"I", "'", "m", " ", "s", "o", "r", "r", "y", ",", " ", "t", "h", "e", " ", "r",
        "e", "q", "u", "e", "s", "t", " ", "t", "i", "m", "e", "d", " ", "o", "u", "t",
        ".", " ", "P", "l", "e", "a", "s", "e", " ", "t", "r", "y", " ", "a", "g", "a",
        "i", "n", ".">>
    [] s = "I encountered an error while processing your request. Please try again." ->
      <<"I", " ", "e", "n", "c", "o", "u", "n", "t", "e", "r", "e", "d", " ", "a", "n",
        " ", "e", "r", "r", "o", "r", " ", "w", "h", "i", "l", "e", " ", "p", "r", "o",
        "c", "e", "s", "s", "i", "n", "g", " ", "y", "o", "u", "r", " ", "r", "e", "q",
        "u", "e", "s", "t", ".", " ", "P", "l", "e", "a", "s", "e", " ", "t", "r", "y",
        " ", "a", "g", "a", "i", "n", ".">>
    [] s = "Ecosystems are communities of living things." ->
      <<"E", "c", "o", "s", "y", "s", "t", "e", "m", "s", " ", "a", "r", "e", " ", "c",
        "o", "m", "m", "u", "n", "i", "t", "i", "e", "s", " ", "o", "f", " ", "l", "i",
        "v", "i", "n", "g", " ", "t", "h", "i", "n", "g", "s", ".">>

\* str.lower() on one character
LowerChar(c) ==
  CASE c = "A" -> "a" [] c = "B" -> "b" [] c = "C" -> "c" [] c = "D" -> "d"
    [] c = "E" -> "e" [] c = "F" -> "f" [] c = "G" -> "g" [] c = "H" -> "h"
    [] c = "I" -> "i" [] c = "J" -> "j" [] c = "K" -> "k" [] c = "L" -> "l"
    [] c = "M" -> "m" [] c = "N" -> "n" [] c = "O" -> "o" [] c = "P" -> "p"
    [] c = "Q" -> "q" [] c = "R" -> "r" [] c = "S" -> "s" [] c = "T" -> "t"
    [] c = "U" -> "u" [] c = "V" -> "v" [] c = "W" -> "w" [] c = "X" -> "x"
    [] c = "Y" -> "y" [] c = "Z" -> "z" [] OTHER -> c

\* str.lower()
Lower(cs) == [i \in 1..Len(cs) |-> LowerChar(cs[i])]

\* `needle in hay` for two strings
Contains(hay, needle) ==
  \E i \in 0..(Len(hay) - Len(needle)) :
    \A j \in 1..Len(needle) : hay[i + j] = needle[j]

\* str.startswith
StartsWith(cs, prefix) ==
  Len(prefix) <= Len(cs) /\ \A i \in 1..Len(prefix) : cs[i] = prefix[i]

\* seq[:k] for k >= 0
Take(s, k) == SubSeq(s, 1, IF k < Len(s) THEN k ELSE Len(s))

\* seq[-k:] for k >= 0; seq[-0:] is the whole sequence
LastK(s, k) == IF k = 0 \/ k >= Len(s) THEN s ELSE SubSeq(s, Len(s) - k + 1, Len(s))

\* seq[::-1]
Reverse(s) == [i \in 1..Len(s) |-> s[Len(s) + 1 - i]]

(***************************************************************************)
(* The curated catalog                                                     *)
(***************************************************************************)
LOCAL_KNOWLEDGE_BASE ==
  <<
    [grade |-> 1, subject |-> "Math", chapter_number |-> 1,
     chapter_name |-> "Basic Counting",
     content |-> "First grade math focuses on counting numbers 1-100, basic addition and subtraction within 20, and understanding place value. Students learn to recognize and write numbers, compare quantities, and solve simple word problems."],
    [grade |-> 1, subject |-> "Science", chapter_number |-> 1,
     chapter_name |-> "Living vs Non-living",
     content |-> "First grade science introduces the difference between living and non-living things. Students learn about basic needs of living things like food, water, air, and shelter. They explore plants, animals, and their habitats."],
    [grade |-> 1, subject |-> "English", chapter_number |-> 1,
     chapter_name |-> "Phonics and Reading",
     content |-> "First grade English focuses on phonics, sight words, and basic reading skills. Students learn letter sounds, blend consonants and vowels, and read simple sentences. Writing includes forming letters and writing simple words."],
    [grade |-> 2, subject |-> "Math", chapter_number |-> 1,
     chapter_name |-> "Addition and Subtraction",
     content |-> "Second grade math extends addition and subtraction skills to 100, introduces regrouping, and covers basic geometry shapes. Students work with money, time, and measurement using standard units."],
    [grade |-> 2, subject |-> "Science", chapter_number |-> 1,
     chapter_name |-> "Weather and Seasons",
     content |-> "Second grade science covers weather patterns, seasons, and their effects on living things. Students learn about different types of weather, how to measure weather conditions, and seasonal changes in plants and animals."],
    [grade |-> 3, subject |-> "Math", chapter_number |-> 1,
     chapter_name |-> "Multiplication and Division",
     content |-> "Third grade math introduces multiplication and division concepts, fractions as parts of a whole, and area and perimeter. Students work with larger numbers and solve multi-step word problems."],
    [grade |-> 3, subject |-> "Science", chapter_number |-> 1,
     chapter_name |-> "Plant and Animal Life Cycles",
     content |-> "Third grade science explores life cycles of plants and animals, adaptation and survival, and basic concepts of inheritance. Students learn how organisms grow, reproduce, and adapt to their environments."],
    [grade |-> 4, subject |-> "Math", chapter_number |-> 1,
     chapter_name |-> "Multi-digit Operations",
     content |-> "Fourth grade math focuses on multi-digit multiplication and division, equivalent fractions, and decimal notation. Students work with factors, multiples, and patterns in number sequences."],
    [grade |-> 4, subject |-> "Science", chapter_number |-> 1,
     chapter_name |-> "Energy and Motion",
     content |-> "Fourth grade science covers energy forms (light, heat, sound, electrical, mechanical), motion and forces, and simple machines. Students explore how energy transfers and transforms in different situations."],
    [grade |-> 5, subject |-> "Math", chapter_number |-> 1,
     chapter_name |-> "Fractions and Decimals",
     content |-> "Fifth grade math focuses on operations with fractions and decimals, volume and coordinate planes. Students learn to add, subtract, multiply, and divide fractions and decimals with understanding."],
    [grade |-> 5, subject |-> "Science", chapter_number |-> 2,
     chapter_name |-> "Ecosystems and Environment",
     content |-> "Fifth grade science covers ecosystems, food chains and webs, water cycle, and human impact on environment. Students learn about interdependence of organisms and conservation practices."],
    [grade |-> 5, subject |-> "Social", chapter_number |-> 3,
     chapter_name |-> "American History Foundations",
     content |-> "Fifth grade social studies covers early American history, including Native American cultures, European exploration, colonial life, and the founding of the United States."],
    [grade |-> 5, subject |-> "English", chapter_number |-> 4,
     chapter_name |-> "Reading Comprehension and Writing",
     content |-> "Fifth grade English emphasizes reading comprehension strategies, vocabulary development, and structured writing. Students analyze texts, write narratives, and learn basic research skills."],
    [grade |-> 6, subject |-> "Math", chapter_number |-> 1,
     chapter_name |-> "Ratios and Proportions",
     content |-> "Sixth grade math introduces ratios, rates, and proportional relationships. Students work with integers, rational numbers, and begin algebraic thinking with expressions and equations."],
    [grade |-> 6, subject |-> "Science", chapter_number |-> 1,
     chapter_name |-> "Earth's Systems",
     content |-> "Sixth grade science explores Earth's systems including weather and climate, plate tectonics, and the rock cycle. Students learn about interactions between atmosphere, hydrosphere, geosphere, and biosphere."],
    [grade |-> 7, subject |-> "Math", chapter_number |-> 1,
     chapter_name |-> "Algebraic Expressions",
     content |-> "Seventh grade math focuses on algebraic expressions and equations, proportional relationships, and probability. Students work with integers, rational numbers, and geometric constructions."],
    [grade |-> 7, subject |-> "Science", chapter_number |-> 1,
     chapter_name |-> "Life Science Fundamentals",
     content |-> "Seventh grade science covers cell structure and function, genetics and heredity, evolution and natural selection. Students explore how organisms are organized and how traits are passed down."],
    [grade |-> 8, subject |-> "Math", chapter_number |-> 1,
     chapter_name |-> "Linear Functions",
     content |-> "Eighth grade math introduces linear functions, systems of equations, and geometric transformations. Students work with the Pythagorean theorem, volume formulas, and scatter plots."],
    [grade |-> 8, subject |-> "Science", chapter_number |-> 2,
     chapter_name |-> "Physical Science Basics",
     content |-> "Eighth grade science covers forces and motion, energy transfer, wave properties, and basic chemistry including atoms, elements, and chemical reactions."],
    [grade |-> 8, subject |-> "Social", chapter_number |-> 3,
     chapter_name |-> "American History through Civil War",
     content |-> "Eighth grade social studies typically covers American history from colonial times through the Civil War, including the Constitution, westward expansion, and sectional conflicts."],
    [grade |-> 8, subject |-> "English", chapter_number |-> 4,
     chapter_name |-> "Literary Analysis and Composition",
     content |-> "Eighth grade English focuses on literary analysis, argumentative writing, and research skills. Students read complex texts, analyze themes and literary devices, and write structured essays."],
    [grade |-> 9, subject |-> "Math", chapter_number |-> 1,
     chapter_name |-> "Algebra I Foundations",
     content |-> "Ninth grade math typically covers Algebra I, including linear equations, quadratic functions, exponential functions, and statistical analysis. Students develop algebraic reasoning and problem-solving skills."],
    [grade |-> 9, subject |-> "Science", chapter_number |-> 1,
     chapter_name |-> "Biology Fundamentals",
     content |-> "Ninth grade science often focuses on biology, covering cell biology, genetics, evolution, ecology, and human body systems. Students learn scientific method and conduct laboratory investigations."],
    [grade |-> 10, subject |-> "Math", chapter_number |-> 1,
     chapter_name |-> "Geometry and Advanced Algebra",
     content |-> "Tenth grade math often includes Geometry (proofs, theorems, spatial reasoning) or Algebra II (polynomials, rational functions, logarithms, trigonometry basics)."],
    [grade |-> 10, subject |-> "Science", chapter_number |-> 2,
     chapter_name |-> "Chemistry Foundations",
     content |-> "Tenth grade science typically covers chemistry fundamentals including atomic structure, chemical bonding, stoichiometry, and chemical reactions. Laboratory work emphasizes quantitative analysis."],
    [grade |-> 10, subject |-> "Social", chapter_number |-> 3,
     chapter_name |-> "World History and Geography",
     content |-> "Tenth grade social studies often covers world history from ancient civilizations to modern times, with emphasis on cultural development, political systems, and global connections."],
    [grade |-> 10, subject |-> "English", chapter_number |-> 4,
     chapter_name |-> "Advanced Composition and Literature",
     content |-> "Tenth grade English emphasizes critical analysis of literature, advanced composition techniques, research methodology, and persuasive writing. Students engage with complex themes and diverse perspectives."]
  >>

N == Len(LOCAL_KNOWLEDGE_BASE)

CatalogSubjects == {LOCAL_KNOWLEDGE_BASE[i].subject : i \in 1..N}

(***************************************************************************)
(* Embeddings and cosine similarity                                        *)
(***************************************************************************)
\* encoder.encode raised: there is no vector
EncodeError == <<>>

\* vectors the model lets the embedding model give a catalog text
EntryVectors == {<<1, 0>>, <<0, 1>>, <<2, 0>>}

\* vectors the model lets the embedding model give a query
QueryVectors == {<<1, 0>>, <<0, 1>>, <<1, 1>>, <<0, 0>>}

Dot(a, b) == a[1] * b[1] + a[2] * b[2]

\* sklearn normalises with a norm of 0 replaced by 1
SqNorm(a) == IF Dot(a, a) = 0 THEN 1 ELSE Dot(a, a)

\* cosine_similarity(q, a) as the exact fraction sign(cos) * cos^2 = num / den, den > 0
cosine_similarity(q, a) ==
  LET d == Dot(q, a)
  IN  [num |-> IF d < 0 THEN 0 - d * d ELSE d * d, den |-> SqNorm(q) * SqNorm(a)]

SimLeq(x, y) == x.num * y.den <= y.num * x.den
SimLess(x, y) == x.num * y.den < y.num * x.den
SimEq(x, y) == x.num * y.den = y.num * x.den

\* np.argsort(similarities): every ascending order of the positions; the default
\* kind is not stable, so equal values come in any order
argsort(sims) ==
  {p \in [1..Len(sims) -> 1..Len(sims)] :
     /\ \A i, j \in 1..Len(sims) : i # j => p[i] # p[j]
     /\ \A i \in 1..(Len(sims) - 1) : SimLeq(sims[p[i]], sims[p[i + 1]])}

\* educational_embeddings = None
NoIndex == [built |-> FALSE, embeddings |-> <<>>]

\* line 370: the text the index embeds for a catalog entry
Render(entry) ==
  <<"Grade ", entry.grade, " ", entry.subject, ": ", entry.chapter_name, " - ", entry.content>>

\* encoder.encode(texts): the embedding model is a function of the text, and
\* enc[i] is the vector it gives the rendering of catalog entry i
encode(enc, texts) ==
  [j \in 1..Len(texts) |->
     enc[CHOOSE i \in 1..N : Render(LOCAL_KNOWLEDGE_BASE[i]) = texts[j]]]

\* an index whose rows are in the reverse of the catalog order
BuiltIndex_Reversed(enc) ==
  LET texts == [i \in 1..N |-> Render(LOCAL_KNOWLEDGE_BASE[i])]
  IN  [built |-> TRUE, embeddings |-> Reverse(encode(enc, texts))]

\* the index built at startup by initialize_educational_knowledge_base
BuiltIndex(enc) ==
  LET texts == [i \in 1..N |-> Render(LOCAL_KNOWLEDGE_BASE[i])]
  IN  [built |-> TRUE, embeddings |-> encode(enc, texts)]

(***************************************************************************)
(* get_educational_knowledge                                               *)
(***************************************************************************)
\* the two `continue` tests of the filter loop
PassesFilter(entry, grade, subject) ==
  /\ ~(grade # 0 /\ entry.grade # grade)
  /\ ~(subject # "" /\ ~Contains(Lower(Chars(entry.subject)), Lower(Chars(subject))))

RelevantEntries(grade, subject) ==
  SelectSeq(LOCAL_KNOWLEDGE_BASE, LAMBDA e : PassesFilter(e, grade, subject))

\* relevant_indices that number the filtered entries instead of locating them
\* in the catalog
RelevantIndices_Positions(relevant_entries) ==
  [j \in 1..Len(relevant_entries) |-> j]

\* relevant_indices: the catalog positions i with `entry in relevant_entries`
RelevantIndices(relevant_entries) ==
  SelectSeq([i \in 1..N |-> i],
            LAMBDA i : \E j \in 1..Len(relevant_entries) :
                         relevant_entries[j] = LOCAL_KNOWLEDGE_BASE[i])

\* the ranked branch: similarities of the relevant rows, argsort, last top_k, reversed
RankedResults(relevant_entries, relevant_indices, qvec, emb, top_k) ==
  LET similarities == [j \in 1..Len(relevant_indices) |->
                         cosine_similarity(qvec, emb.embeddings[relevant_indices[j]])]
  IN  {[j \in 1..Len(top) |-> relevant_entries[top[j]]] :
         top \in {Reverse(LastK(p, top_k)) : p \in argsort(similarities)}}

\* get_educational_knowledge without the `if not query` return: an empty
\* query is embedded and ranked like any other
get_educational_knowledge_AlwaysRanks(grade, subject, query, top_k, qvec, emb) ==
  LET relevant_entries == RelevantEntries(grade, subject)
      relevant_indices == RelevantIndices(relevant_entries)
  IN  IF Len(relevant_entries) = 0
        THEN {[none |-> TRUE, raised |-> None, value |-> <<>>, encoded |-> FALSE, ranked |-> FALSE]}
      ELSE IF emb.built
        THEN IF qvec = EncodeError
               THEN {[none |-> TRUE, raised |-> None, value |-> <<>>, encoded |-> TRUE,
                      ranked |-> FALSE]}
               ELSE {[none |-> FALSE, raised |-> None, value |-> r, encoded |-> TRUE,
                      ranked |-> TRUE] :
                       r \in RankedResults(relevant_entries, relevant_indices, qvec, emb, top_k)}
      ELSE {[none |-> FALSE, raised |-> None, value |-> Take(relevant_entries, top_k),
             encoded |-> FALSE, ranked |-> FALSE]}

\* every outcome of one call: whether it returned None, the list it returned
\* otherwise, the exception it let out (none: line 479 catches them all),
\* whether the encoder was called on the query and whether similarities were
\* computed
get_educational_knowledge(grade, subject, query, top_k, qvec, emb) ==
  LET relevant_entries == RelevantEntries(grade, subject)
      relevant_indices == RelevantIndices(relevant_entries)
      unranked == [none |-> FALSE, raised |-> None, value |-> Take(relevant_entries, top_k),
                   encoded |-> FALSE, ranked |-> FALSE]
  IN  IF Len(relevant_entries) = 0
        THEN {[none |-> TRUE, raised |-> None, value |-> <<>>, encoded |-> FALSE, ranked |-> FALSE]}
      ELSE IF query = None \/ query = ""
        THEN {unranked}
      ELSE IF emb.built
        THEN IF qvec = EncodeError
               THEN {[none |-> TRUE, raised |-> None, value |-> <<>>, encoded |-> TRUE,
                      ranked |-> FALSE]}
               ELSE {[none |-> FALSE, raised |-> None, value |-> r, encoded |-> TRUE,
                      ranked |-> TRUE] :
                       r \in RankedResults(relevant_entries, relevant_indices, qvec, emb, top_k)}
      ELSE {unranked}

(***************************************************************************)
(* infer_subject                                                           *)
(***************************************************************************)
math_keywords ==
  {"math", "algebra", "geometry", "equation", "theorem", "fraction", "decimal",
   "multiplication", "division", "linear", "function"}

science_keywords ==
  {"science", "biology", "physics", "chemistry", "ecosystem", "water cycle",
   "photosynthesis", "energy", "motion", "cell", "atom"}

social_keywords ==
  {"history", "war", "ancient", "revolution", "civil war", "geography", "culture",
   "government", "social"}

english_keywords ==
  {"english", "literature", "grammar", "writing", "poem", "story", "reading"}

AnyKeyword(keywords, text_lower) == \E k \in keywords : Contains(text_lower, Chars(k))

\* an infer_subject that looks for the Science keywords first
infer_subject_ScienceFirst(text) ==
  LET text_lower == Lower(text)
  IN  IF AnyKeyword(science_keywords, text_lower) THEN "Science"
      ELSE IF AnyKeyword(math_keywords, text_lower) THEN "Math"
      ELSE IF AnyKeyword(social_keywords, text_lower) THEN "Social"
      ELSE IF AnyKeyword(english_keywords, text_lower) THEN "English"
      ELSE "English"

\* an infer_subject whose default is the first category
infer_subject_DefaultMath(text) ==
  LET text_lower == Lower(text)
  IN  IF AnyKeyword(math_keywords, text_lower) THEN "Math"
      ELSE IF AnyKeyword(science_keywords, text_lower) THEN "Science"
      ELSE IF AnyKeyword(social_keywords, text_lower) THEN "Social"
      ELSE IF AnyKeyword(english_keywords, text_lower) THEN "English"
      ELSE "Math"

infer_subject(text) ==
  LET text_lower == Lower(text)
  IN  IF AnyKeyword(math_keywords, text_lower) THEN "Math"
      ELSE IF AnyKeyword(science_keywords, text_lower) THEN "Science"
      ELSE IF AnyKeyword(social_keywords, text_lower) THEN "Social"
      ELSE IF AnyKeyword(english_keywords, text_lower) THEN "English"
      ELSE "English"

(***************************************************************************)
(* Conversation memory in Firestore                                        *)
(***************************************************************************)
HistoryLimit == 10
PromptWindow == 5
QueryTopK == 3

\* a server whose clock runs backwards: the added document is the oldest
add_ClockBackwards(collection, data) ==
  collection \cup {[role |-> data.role, text |-> data.text, grade |-> data.grade,
                    timestamp |-> 0 - Cardinality(collection)]}

\* a collection is a set of documents; the server stamps each added document
\* with its clock, later than every document already in the collection
add(collection, data) ==
  collection \cup {[role |-> data.role, text |-> data.text, grade |-> data.grade,
                    timestamp |-> Cardinality(collection) + 1]}

\* order_by('timestamp'): the documents in ascending order of timestamp
order_by_timestamp(collection) ==
  [i \in 1..Cardinality(collection) |->
     CHOOSE d \in collection :
       Cardinality({e \in collection : e.timestamp < d.timestamp}) = i - 1]

\* order_by('timestamp').limit(10).stream()
LoadedDocs(collection) == Take(order_by_timestamp(collection), HistoryLimit)

\* the {'role', 'text'} dictionaries appended to current_conversation_history
RoleText(docs) == [i \in 1..Len(docs) |-> [role |-> docs[i].role, text |-> docs[i].text]]

(***************************************************************************)
(* ask_gemini                                                              *)
(***************************************************************************)
\* line 512; the text begins with the character U+274C, see Chars
NoKeyMessage ==
  "[U+274C] Error: Gemini API key not configured. Please set your GEMINI_API_KEY environment variable."
ShapeApology == "I'm sorry, I couldn't generate a response. Please try again."
TimeoutApology == "I'm sorry, the request timed out. Please try again."
TransportApology == "I encountered an error while processing your request. Please try again."
NoKnowledgeMarker == "No specific knowledge found in the knowledge base."

\* what the POST to the generation API can come back with
\* ("invalid_json": a 200 whose body is not JSON, where response.json() raises a
\* plain ValueError, as requests before 2.27 does; where it raises a
\* RequestException the reply is a "transport" one)
GenOutcomes ==
  {"ok", "timeout", "transport", "no_candidates", "no_parts", "no_text", "invalid_json"}

\* texts the generation API answers with
GenTexts == {"Ecosystems are communities of living things."}

\* ask_gemini with no handler for requests.exceptions.Timeout
AskGeminiReturn_TimeoutRaises(outcome, text) ==
  CASE outcome = "ok" -> [raised |-> None, value |-> text]
    [] outcome = "timeout" -> [raised |-> "Timeout", value |-> None]
    [] outcome = "transport" -> [raised |-> None, value |-> TransportApology]
    [] outcome = "no_candidates" -> [raised |-> None, value |-> ShapeApology]
    [] outcome = "no_parts" -> [raised |-> None, value |-> ShapeApology]
    [] outcome = "no_text" -> [raised |-> "KeyError", value |-> None]
    [] outcome = "invalid_json" -> [raised |-> "ValueError", value |-> None]

\* lines 552-568: what ask_gemini does with the outcome of the POST
AskGeminiReturn(outcome, text) ==
  CASE outcome = "ok" -> [raised |-> None, value |-> text]
    [] outcome = "timeout" -> [raised |-> None, value |-> TimeoutApology]
    [] outcome = "transport" -> [raised |-> None, value |-> TransportApology]
    [] outcome = "no_candidates" -> [raised |-> None, value |-> ShapeApology]
    [] outcome = "no_parts" -> [raised |-> None, value |-> ShapeApology]
    [] outcome = "no_text" -> [raised |-> "KeyError", value |-> None]
    [] outcome = "invalid_json" -> [raised |-> "ValueError", value |-> None]

\* a handler that posts again after a timeout
PcAfterReply_RetryOnTimeout(outcome) ==
  IF outcome = "timeout" THEN "ask"
  ELSE IF outcome \in {"no_text", "invalid_json"} THEN "respond" ELSE "save_user"

\* where the handler goes on when the POST came back: an exception that
\* ask_gemini does not catch leaves process_educational_query, anything else
\* is returned to line 628 and the handler goes on to save
PcAfterReply(outcome) ==
  IF AskGeminiReturn(outcome, None).raised # None THEN "respond" ELSE "save_user"

\* lines 620-625: "Chapter: <chapter_name> - <content>" of every entry, to be
\* joined by blank lines; the empty string when there are no entries
FormatKnowledge(educational_entries) ==
  [i \in 1..Len(educational_entries) |->
     <<"Chapter: ", educational_entries[i].chapter_name, " - ", educational_entries[i].content>>]

\* a prompt that carries the whole history
BuildPrompt_WholeHistory(user_message, grade, conversation_history, retrieved_knowledge) ==
  [grade |-> grade,
   history |-> conversation_history,
   knowledge |-> IF retrieved_knowledge # <<>> THEN retrieved_knowledge
                 ELSE << <<NoKnowledgeMarker>> >>,
   question |-> user_message]

\* a prompt that never carries the retrieved knowledge
BuildPrompt_NoGrounding(user_message, grade, conversation_history, retrieved_knowledge) ==
  [grade |-> grade,
   history |-> LastK(conversation_history, PromptWindow),
   knowledge |-> << <<NoKnowledgeMarker>> >>,
   question |-> user_message]

\* the prompt of lines 515-526: the grade, the last turns of the history, the
\* knowledge or the marker, the question
BuildPrompt(user_message, grade, conversation_history, retrieved_knowledge) ==
  [grade |-> grade,
   history |-> LastK(conversation_history, PromptWindow),
   knowledge |-> IF retrieved_knowledge # <<>> THEN retrieved_knowledge
                 ELSE << <<NoKnowledgeMarker>> >>,
   question |-> user_message]

NoPrompt == [grade |-> 0, history |-> <<>>, knowledge |-> <<>>, question |-> None]

(***************************************************************************)
(* The /chat requests                                                      *)
(***************************************************************************)
Users == {"u1", "u2"}
\* the (question, grade) pairs asked: one with a catalog entry for its grade
\* and inferred subject, one without
ChatInputs ==
  {[question |-> "What are ecosystems?", grade |-> 5],
   [question |-> "Summarize this poem", grade |-> 11]}
Slots == {1, 2}

\* the conversation that earlier runs of the server left in the store:
\* n exchanges, each written by the two add() calls of one query
RECURSIVE PriorThread(_)
PriorThread(n) ==
  IF n = 0 THEN {}
  ELSE add(add(PriorThread(n - 1),
               [role |-> "user", text |-> "What are ecosystems?", grade |-> 5]),
           [role |-> "model", text |-> "Ecosystems are communities of living things.", grade |-> 5])

\* the store outlives the server: at startup one user is new and the other
\* has the conversation that earlier runs wrote
InitialStores == {[u \in Users |-> IF u = "u1" THEN {} ELSE PriorThread(MaxPrior)]}

\* the bounds of the fields of ChatRequest
QuestionMinLength == 1
QuestionMaxLength == 1000
GradeMin == 1
GradeMax == 12
UserIdMinLength == 1

\* str.strip(): the text without the white space at its two ends (the space
\* is the one white-space character of the texts here)
RECURSIVE lstrip(_)
lstrip(cs) == IF cs # <<>> /\ Head(cs) = " " THEN lstrip(Tail(cs)) ELSE cs
strip(cs) == Reverse(lstrip(Reverse(lstrip(cs))))

\* `not v.strip()`: stripping leaves nothing
IsBlank(cs) == strip(cs) = <<>>

\* the texts a validated field can hold, and the text of given characters
StrippedTexts == {"u1", "u2", "and", "What are ecosystems?", "Summarize this poem"}
Text(cs) == CHOOSE t \in StrippedTexts : Chars(t) = cs

\* a ChatRequest that accepts grades above 12
ChatRequestValid_NoUpperGrade(question, grade, user_id) ==
  /\ Len(Chars(question)) >= QuestionMinLength
  /\ Len(Chars(question)) <= QuestionMaxLength
  /\ ~IsBlank(Chars(question))
  /\ grade >= GradeMin
  /\ Len(Chars(user_id)) >= UserIdMinLength
  /\ ~IsBlank(Chars(user_id))

\* the validation of ChatRequest: the Field bounds and the two validators
ChatRequestValid(question, grade, user_id) ==
  /\ Len(Chars(question)) >= QuestionMinLength
  /\ Len(Chars(question)) <= QuestionMaxLength
  /\ ~IsBlank(Chars(question))
  /\ grade >= GradeMin
  /\ grade <= GradeMax
  /\ Len(Chars(user_id)) >= UserIdMinLength
  /\ ~IsBlank(Chars(user_id))

\* requests that break one rule of ChatRequest each
BadRequests ==
  {[user |-> "u1", question |-> "What are ecosystems?", grade |-> 0],
   [user |-> "u1", question |-> "What are ecosystems?", grade |-> 13],
   [user |-> "u2", question |-> "", grade |-> 5],
   [user |-> "u2", question |-> "   ", grade |-> 5],
   [user |-> "", question |-> "What are ecosystems?", grade |-> 5]}

\* the ChatRequest that chat_endpoint is given: the two validators return
\* v.strip(), so question and user_id come without the white space around
\* them
ChatRequest(question, grade, user_id) ==
  [question |-> Text(strip(Chars(question))), grade |-> grade,
   user_id |-> Text(strip(Chars(user_id)))]

\* requests with white space around the user_id or around the question
PaddedRequests ==
  {[user |-> " u1 ", question |-> "What are ecosystems?", grade |-> 5],
   [user |-> "u2", question |-> " Summarize this poem ", grade |-> 11]}

\* the requests sent to /chat
Requests ==
  {[user |-> u, question |-> in.question, grade |-> in.grade] : u \in Users, in \in ChatInputs}
    \cup PaddedRequests \cup BadRequests

Idle ==
  [pc |-> "idle", user |-> None, question |-> None, grade |-> 0, validated |-> FALSE,
   n0 |-> 0, load_ok |-> FALSE, loaded |-> <<>>, history |-> <<>>,
   subject |-> None, entries_none |-> TRUE, entries |-> <<>>, knowledge |-> <<>>,
   prompt |-> NoPrompt,
   gen_calls |-> 0, outcome |-> None, response |-> None, raised |-> None,
   saved |-> 0, save_failed |-> FALSE, result |-> None, status |-> 0]

NoCall ==
  [state |-> "none", grade |-> 0, subject |-> "", query |-> None, qvec |-> <<0, 0>>,
   top_k |-> 0, none |-> FALSE, raised |-> None, value |-> <<>>, encoded |-> FALSE,
   ranked |-> FALSE]

\* the encoder used by the chat model: one fixed vector for every catalog text
FlatEncoder == [i \in 1..N |-> <<1, 0>>]

\* no call of infer_subject on its own
NoInfer == [state |-> "none", parts |-> <<>>, result |-> None]

\* the names of the JSON files that can lie in the directory 'knowledge_base'
KbNames == {"grade_content", "cultural_content"}

\* a JSON value of a field: a string, or a value of another type, with the
\* text an f-string makes of it
Str(t) == [is_str |-> TRUE, repr |-> t]
NotStr(t) == [is_str |-> FALSE, repr |-> t]

\* a JSON object with the given keys among 'topic' and 'content'
Object(keys, topic, content) ==
  [is_object |-> TRUE, keys |-> keys, topic |-> topic, content |-> content]

\* an element of a JSON array that is not an object
NoItem == [is_object |-> FALSE, keys |-> {}, topic |-> Str(""), content |-> Str("")]

\* no directory 'knowledge_base', the two dictionaries as lines 321-322 make them
NoSources == [dir |-> FALSE, files |-> [n \in KbNames |-> "absent"]]
NoKnowledgeBase == [n \in KbNames |-> [present |-> FALSE, data |-> <<>>]]
NoEmbeddings == [n \in KbNames |-> [present |-> FALSE, data |-> <<>>, embeddings |-> <<>>]]

\* a RAGService whose construction has ended
Booted ==
  [pc |-> "ready", model_ok |-> TRUE, todo |-> {}, encode_failed |-> {},
   curated_ok |-> TRUE, searched |-> None, found |-> FALSE, hit |-> NoItem]

Init ==
  /\ db \in BOOLEAN
  /\ api_key \in BOOLEAN
  /\ encoder = FlatEncoder
  /\ educational_embeddings \in {NoIndex, BuiltIndex(FlatEncoder)}
  /\ store \in InitialStores
  /\ req = [s \in Slots |-> Idle]
  /\ loop = 0
  /\ served = 0
  /\ faults = 0
  /\ call = NoCall
  /\ inf = NoInfer
  /\ sources = NoSources
  /\ knowledge_base = NoKnowledgeBase
  /\ embeddings = NoEmbeddings
  /\ boot = [Booted EXCEPT !.curated_ok = educational_embeddings.built]

Config == <<db, api_key, encoder, educational_embeddings>>

\* a request whose body fails the validation of ChatRequest: when the event
\* loop comes to it, it is answered with 422 and chat_endpoint is not called
Reject(s, r) ==
  /\ req[s].pc = "idle"
  /\ \A t \in Slots : t < s => req[t].pc # "idle"
  /\ served < MaxRequests
  /\ ~ChatRequestValid(r.question, r.grade, r.user)
  /\ loop = 0
  /\ loop' = s
  /\ req' = [req EXCEPT ![s] = [Idle EXCEPT !.pc = "done", !.user = r.user,
                                            !.question = r.question, !.grade = r.grade,
                                            !.status = 422]]
  /\ served' = served + 1
  /\ UNCHANGED <<Config, store, faults, call, Side>>

\* a request that passes the validation of ChatRequest waits for the event
\* loop with its stripped fields; it is given the first free slot
Arrive(s, u, in) ==
  /\ req[s].pc = "idle"
  /\ \A t \in Slots : t < s => req[t].pc # "idle"
  /\ served < MaxRequests
  /\ ChatRequestValid(in.question, in.grade, u)
  /\ LET request == ChatRequest(in.question, in.grade, u)
     IN  req' = [req EXCEPT ![s] = [Idle EXCEPT !.pc = "pending",
                                               !.user = request.user_id,
                                               !.validated = TRUE,
                                               !.question = request.question,
                                               !.grade = request.grade]]
  /\ served' = served + 1
  /\ UNCHANGED <<Config, store, loop, faults, call, Side>>

\* the event loop starts the handler; the handler has no suspension point
\* (the Firestore and HTTP calls block), so it keeps the loop until it ends
Start(s) ==
  /\ req[s].pc = "pending"
  /\ loop = 0
  /\ loop' = s
  /\ req' = [req EXCEPT ![s].pc = "load",
                        ![s].n0 = Cardinality(store[req[s].user])]
  /\ UNCHANGED <<Config, store, served, faults, call, Side>>

\* a load without the try: what the store raises leaves the handler
Load_NoExcept(s, ok) ==
  /\ req[s].pc = "load"
  /\ loop = s
  /\ ~ok => db /\ faults < MaxFaults
  /\ LET docs == IF db /\ ok THEN LoadedDocs(store[req[s].user]) ELSE <<>>
     IN  req' = IF db /\ ~ok
                  THEN [req EXCEPT ![s].pc = "respond", ![s].raised = "StoreError"]
                  ELSE [req EXCEPT ![s].pc = "retrieve",
                                   ![s].load_ok = db /\ ok,
                                   ![s].loaded = docs,
                                   ![s].history = Append(RoleText(docs),
                                                         [role |-> "user", text |-> req[s].question])]
  /\ faults' = IF ok THEN faults ELSE faults + 1
  /\ UNCHANGED <<Config, store, loop, served, call, Side>>

\* lines 582-610: load the history and append the user message to it; every
\* stored document has a role and a text, so line 591 skips none
Load(s, ok) ==
  /\ req[s].pc = "load"
  /\ loop = s
  /\ ~ok => db /\ faults < MaxFaults
  /\ LET docs == IF db /\ ok THEN LoadedDocs(store[req[s].user]) ELSE <<>>
     IN  req' = [req EXCEPT ![s].pc = "retrieve",
                            ![s].load_ok = db /\ ok,
                            ![s].loaded = docs,
                            ![s].history = Append(RoleText(docs),
                                                  [role |-> "user", text |-> req[s].question])]
  /\ faults' = IF ok THEN faults ELSE faults + 1
  /\ UNCHANGED <<Config, store, loop, served, call, Side>>

\* a retrieval whose error handler throws the index away
Retrieve_DropsIndex(s, qvec) ==
  /\ req[s].pc = "retrieve"
  /\ loop = s
  /\ qvec = EncodeError => faults < MaxFaults
  /\ LET inferred_subject == infer_subject(Chars(req[s].question))
     IN  \E r \in get_educational_knowledge(req[s].grade, inferred_subject, req[s].question,
                                            QueryTopK, qvec, educational_embeddings) :
           /\ qvec = EncodeError => r.encoded
           /\ req' = [req EXCEPT ![s].pc = "ask",
                                 ![s].subject = inferred_subject,
                                 ![s].entries_none = r.none,
                                 ![s].entries = r.value,
                                 ![s].knowledge = FormatKnowledge(r.value)]
           /\ faults' = IF qvec = EncodeError THEN faults + 1 ELSE faults
  /\ educational_embeddings' = IF qvec = EncodeError THEN NoIndex ELSE educational_embeddings
  /\ UNCHANGED <<db, api_key, encoder, store, loop, served, call, Side>>

\* lines 612-625: infer the subject, retrieve, format the knowledge
Retrieve(s, qvec) ==
  /\ req[s].pc = "retrieve"
  /\ loop = s
  /\ qvec = EncodeError => faults < MaxFaults
  /\ LET inferred_subject == infer_subject(Chars(req[s].question))
     IN  \E r \in get_educational_knowledge(req[s].grade, inferred_subject, req[s].question,
                                            QueryTopK, qvec, educational_embeddings) :
           /\ qvec = EncodeError => r.encoded
           /\ req' = [req EXCEPT ![s].pc = "ask",
                                 ![s].subject = inferred_subject,
                                 ![s].entries_none = r.none,
                                 ![s].entries = r.value,
                                 ![s].knowledge = FormatKnowledge(r.value)]
           /\ faults' = IF qvec = EncodeError THEN faults + 1 ELSE faults
  /\ UNCHANGED <<Config, store, loop, served, call, Side>>

\* lines 509-551: without an API key ask_gemini returns at once; otherwise it
\* builds the prompt and posts it
Ask(s) ==
  /\ req[s].pc = "ask"
  /\ loop = s
  /\ IF ~api_key
       THEN req' = [req EXCEPT ![s].pc = "save_user", ![s].response = NoKeyMessage]
       ELSE req' = [req EXCEPT ![s].pc = "posted",
                               ![s].gen_calls = req[s].gen_calls + 1,
                               ![s].prompt = BuildPrompt(req[s].question, req[s].grade,
                                                         req[s].history, req[s].knowledge)]
  /\ UNCHANGED <<Config, store, loop, served, faults, call, Side>>

\* lines 552-568, 628: the POST comes back
Reply(s, outcome, text) ==
  /\ req[s].pc = "posted"
  /\ loop = s
  /\ outcome # "ok" => faults < MaxFaults
  /\ LET ret == AskGeminiReturn(outcome, text)
     IN  req' = [req EXCEPT ![s].pc = PcAfterReply(outcome),
                            ![s].outcome = outcome,
                            ![s].response = ret.value,
                            ![s].raised = ret.raised]
  /\ faults' = IF outcome = "ok" THEN faults ELSE faults + 1
  /\ UNCHANGED <<Config, store, loop, served, call, Side>>

\* a first add() into the thread of a fixed user_id
SaveUser_FixedUser(s, ok) ==
  /\ req[s].pc = "save_user"
  /\ loop = s
  /\ ~ok => db /\ faults < MaxFaults
  /\ IF ~db
       THEN /\ req' = [req EXCEPT ![s].pc = "respond"]
            /\ UNCHANGED store
     ELSE IF ok
       THEN /\ store' = [store EXCEPT !["u2"] =
                           add(@, [role |-> "user", text |-> req[s].question,
                                   grade |-> req[s].grade])]
            /\ req' = [req EXCEPT ![s].pc = "save_model", ![s].saved = 1]
     ELSE /\ req' = [req EXCEPT ![s].pc = "respond", ![s].save_failed = TRUE]
          /\ UNCHANGED store
  /\ faults' = IF ok THEN faults ELSE faults + 1
  /\ UNCHANGED <<Config, loop, served, call, Side>>

\* a first add() in a try of its own: when it raises, the handler still goes
\* on to the second add()
SaveUser_OwnTry(s, ok) ==
  /\ req[s].pc = "save_user"
  /\ loop = s
  /\ ~ok => db /\ faults < MaxFaults
  /\ IF ~db
       THEN /\ req' = [req EXCEPT ![s].pc = "respond"]
            /\ UNCHANGED store
     ELSE IF ok
       THEN /\ store' = [store EXCEPT ![req[s].user] =
                           add(@, [role |-> "user", text |-> req[s].question,
                                   grade |-> req[s].grade])]
            /\ req' = [req EXCEPT ![s].pc = "save_model", ![s].saved = 1]
     ELSE /\ req' = [req EXCEPT ![s].pc = "save_model", ![s].save_failed = TRUE]
          /\ UNCHANGED store
  /\ faults' = IF ok THEN faults ELSE faults + 1
  /\ UNCHANGED <<Config, loop, served, call, Side>>

\* lines 639-642: the first add()
SaveUser(s, ok) ==
  /\ req[s].pc = "save_user"
  /\ loop = s
  /\ ~ok => db /\ faults < MaxFaults
  /\ IF ~db
       THEN /\ req' = [req EXCEPT ![s].pc = "respond"]
            /\ UNCHANGED store
     ELSE IF ok
       THEN /\ store' = [store EXCEPT ![req[s].user] =
                           add(@, [role |-> "user", text |-> req[s].question,
                                   grade |-> req[s].grade])]
            /\ req' = [req EXCEPT ![s].pc = "save_model", ![s].saved = 1]
     ELSE /\ req' = [req EXCEPT ![s].pc = "respond", ![s].save_failed = TRUE]
          /\ UNCHANGED store
  /\ faults' = IF ok THEN faults ELSE faults + 1
  /\ UNCHANGED <<Config, loop, served, call, Side>>

\* a handler whose second add() is missing
SaveModel_NoAdd(s, ok) ==
  /\ req[s].pc = "save_model"
  /\ loop = s
  /\ ~ok => faults < MaxFaults
  /\ req' = [req EXCEPT ![s].pc = "respond", ![s].saved = IF ok THEN 2 ELSE 1,
                        ![s].save_failed = ~ok]
  /\ faults' = IF ok THEN faults ELSE faults + 1
  /\ UNCHANGED <<Config, store, loop, served, call, Side>>

\* a second write that sets the newest document of the thread instead of
\* adding one
SaveModel_Overwrites(s, ok) ==
  /\ req[s].pc = "save_model"
  /\ loop = s
  /\ ~ok => faults < MaxFaults
  /\ IF ok
       THEN /\ store' = [store EXCEPT ![req[s].user] =
                           LET newest == {d \in @ : \A e \in @ : e.timestamp <= d.timestamp}
                           IN  add(@ \ newest, [role |-> "model", text |-> req[s].response,
                                                 grade |-> req[s].grade])]
            /\ req' = [req EXCEPT ![s].pc = "respond", ![s].saved = 2]
       ELSE /\ req' = [req EXCEPT ![s].pc = "respond", ![s].save_failed = TRUE]
            /\ UNCHANGED store
  /\ faults' = IF ok THEN faults ELSE faults + 1
  /\ UNCHANGED <<Config, loop, served, call, Side>>

\* lines 643-646: the second add()
SaveModel(s, ok) ==
  /\ req[s].pc = "save_model"
  /\ loop = s
  /\ ~ok => faults < MaxFaults
  /\ IF ok
       THEN /\ store' = [store EXCEPT ![req[s].user] =
                           add(@, [role |-> "model", text |-> req[s].response,
                                   grade |-> req[s].grade])]
            /\ req' = [req EXCEPT ![s].pc = "respond", ![s].saved = 2]
       ELSE /\ req' = [req EXCEPT ![s].pc = "respond", ![s].save_failed = TRUE]
            /\ UNCHANGED store
  /\ faults' = IF ok THEN faults ELSE faults + 1
  /\ UNCHANGED <<Config, loop, served, call, Side>>

\* the prefix chat_endpoint looks for at line 194: the characters U+201A,
\* U+00F9, U+00E5 and " Error:"
ErrorMarker == <<"U+201A", "U+00F9", "U+00E5", " ", "E", "r", "r", "o", "r", ":">>

\* chat_endpoint lines 187-218: the status of the answer, from the exception
\* process_educational_query let out or the string it returned
EndpointStatus(raised, bot_response) ==
  IF raised = None
    THEN IF StartsWith(Chars(bot_response), ErrorMarker) THEN 500 ELSE 200
  ELSE IF raised = "ValueError" THEN 422
  ELSE 500

\* line 650 and chat_endpoint lines 193-218: process_educational_query
\* returns its string or lets its exception out, and the endpoint answers
Respond(s) ==
  /\ req[s].pc = "respond"
  /\ loop = s
  /\ req' = [req EXCEPT ![s].pc = "done",
                        ![s].result = IF req[s].raised = None THEN req[s].response ELSE None,
                        ![s].status = EndpointStatus(req[s].raised, req[s].response)]
  /\ UNCHANGED <<Config, store, loop, served, faults, call, Side>>

\* the handler's task ends: the event loop and the slot are free again
Release(s) ==
  /\ req[s].pc = "done"
  /\ loop = s
  /\ req' = [req EXCEPT ![s] = Idle]
  /\ loop' = 0
  /\ UNCHANGED <<Config, store, served, faults, call, Side>>

Next ==
  \/ \E s \in Slots, r \in Requests : Arrive(s, r.user, r)
  \/ \E s \in Slots, r \in Requests : Reject(s, r)
  \/ \E s \in Slots : Start(s)
  \/ \E s \in Slots, ok \in BOOLEAN : Load(s, ok)
  \/ \E s \in Slots, qvec \in {<<1, 1>>, EncodeError} : Retrieve(s, qvec)
  \/ \E s \in Slots : Ask(s)
  \/ \E s \in Slots, outcome \in GenOutcomes, text \in GenTexts : Reply(s, outcome, text)
  \/ \E s \in Slots, ok \in BOOLEAN : SaveUser(s, ok)
  \/ \E s \in Slots, ok \in BOOLEAN : SaveModel(s, ok)
  \/ \E s \in Slots : Respond(s)
  \/ \E s \in Slots : Release(s)

Spec == Init /\ [][Next]_vars

(***************************************************************************)
(* The service run by several processes on the one store                   *)
(***************************************************************************)
\* Each handler runs in a worker process of its own (uvicorn workers, or
\* instances of the service), all on the same Firestore project.  The
\* processes are scheduled by the operating system: `loop' is here the
\* process that takes the next step, and a process can lose the processor
\* between any two of its steps.  process_educational_query takes no lock
\* and opens no transaction (lines 582-650), so nothing else orders the
\* steps of two handlers.

\* two requests of one user
WorkerRequests ==
  {[user |-> "u1", question |-> in.question, grade |-> in.grade] : in \in ChatInputs}

InitWorkers ==
  /\ db = TRUE
  /\ api_key = TRUE
  /\ encoder = FlatEncoder
  /\ educational_embeddings = BuiltIndex(FlatEncoder)
  /\ store \in InitialStores
  /\ req = [s \in Slots |-> Idle]
  /\ loop = 0
  /\ served = 0
  /\ faults = 0
  /\ call = NoCall
  /\ inf = NoInfer
  /\ sources = NoSources
  /\ knowledge_base = NoKnowledgeBase
  /\ embeddings = NoEmbeddings
  /\ boot = Booted

\* the process of slot s loses the processor
Yield(s) ==
  /\ loop = s
  /\ loop' = 0
  /\ UNCHANGED <<Config, store, req, served, faults, call, Side>>

\* the process of slot s, its handler under way, gets the processor
Schedule(s) ==
  /\ loop = 0
  /\ req[s].pc \notin {"idle", "pending"}
  /\ loop' = s
  /\ UNCHANGED <<Config, store, req, served, faults, call, Side>>

NextWorkers ==
  \/ \E s \in Slots, r \in WorkerRequests : Arrive(s, r.user, r)
  \/ \E s \in Slots : Start(s)
  \/ \E s \in Slots : Yield(s)
  \/ \E s \in Slots : Schedule(s)
  \/ \E s \in Slots : Load(s, TRUE)
  \/ \E s \in Slots : Retrieve(s, <<1, 1>>)
  \/ \E s \in Slots : Ask(s)
  \/ \E s \in Slots, text \in GenTexts : Reply(s, "ok", text)
  \/ \E s \in Slots : SaveUser(s, TRUE)
  \/ \E s \in Slots : SaveModel(s, TRUE)
  \/ \E s \in Slots : Respond(s)
  \/ \E s \in Slots : Release(s)

SpecWorkers == InitWorkers /\ [][NextWorkers]_vars

(***************************************************************************)
(* get_educational_knowledge on its own                                    *)
(***************************************************************************)
GradesTried == {1, 2, 5, 11}
SubjectsTried == {"", "Math", "science", "S", "Art"}
QueriesTried == {None, "", "What are ecosystems?"}

\* the embedding model, deterministic: within a grade every catalog entry has
\* its own subject, so choosing a vector per subject gives the entries that
\* pass a grade filter every combination of vectors
Encoders ==
  {[i \in 1..N |-> sv[LOCAL_KNOWLEDGE_BASE[i].subject]] : sv \in [CatalogSubjects -> EntryVectors]}

InitRetrieve ==
  /\ db = FALSE
  /\ api_key = FALSE
  /\ encoder \in Encoders
  /\ educational_embeddings \in {NoIndex, BuiltIndex(encoder)}
  /\ store = [u \in Users |-> {}]
  /\ req = [s \in Slots |-> Idle]
  /\ loop = 0
  /\ served = 0
  /\ faults = 0
  /\ inf = NoInfer
  /\ sources = NoSources
  /\ knowledge_base = NoKnowledgeBase
  /\ embeddings = NoEmbeddings
  /\ boot = [Booted EXCEPT !.curated_ok = educational_embeddings.built]
  /\ \E g \in GradesTried, sb \in SubjectsTried, q \in QueriesTried, k \in 0..MaxTopK,
        qv \in QueryVectors \cup {EncodeError} :
       /\ (q = None \/ q = "") => qv = <<0, 0>>
       /\ call = [NoCall EXCEPT !.state = "called", !.grade = g, !.subject = sb,
                                !.query = q, !.qvec = qv, !.top_k = k]

\* the call returns
Return ==
  /\ call.state = "called"
  /\ \E r \in get_educational_knowledge(call.grade, call.subject, call.query, call.top_k,
                                        call.qvec, educational_embeddings) :
       call' = [call EXCEPT !.state = "returned", !.none = r.none, !.raised = r.raised,
                            !.value = r.value,
                            !.encoded = r.encoded, !.ranked = r.ranked]
  /\ UNCHANGED <<Config, store, req, loop, served, faults, Side>>

NextRetrieve == Return

SpecRetrieve == InitRetrieve /\ [][NextRetrieve]_vars

(***************************************************************************)
(* infer_subject on its own                                                *)
(***************************************************************************)
MaxParts == 2

\* a text is a few pieces written one after the other: questions, single
\* keywords in either case, and pieces that make a keyword only together
Fragments ==
  {"What are ecosystems?", "Summarize this poem", "Solve this algebra equation",
   "Describe the water cycle", "Tell me about the Civil War",
   "What is 2+2 and how do plants grow?",
   "Math", "science", "war", "at", "om", "e", " and "}

Texts == UNION {[1..n -> Fragments] : n \in 0..MaxParts}

RECURSIVE TextChars(_)
TextChars(parts) ==
  IF parts = <<>> THEN <<>> ELSE Chars(Head(parts)) \o TextChars(Tail(parts))

InitInfer ==
  /\ db = FALSE
  /\ api_key = FALSE
  /\ encoder = FlatEncoder
  /\ educational_embeddings = BuiltIndex(FlatEncoder)
  /\ store = [u \in Users |-> {}]
  /\ req = [s \in Slots |-> Idle]
  /\ loop = 0
  /\ served = 0
  /\ faults = 0
  /\ call = NoCall
  /\ inf \in {[NoInfer EXCEPT !.state = "called", !.parts = p] : p \in Texts}
  /\ sources = NoSources
  /\ knowledge_base = NoKnowledgeBase
  /\ embeddings = NoEmbeddings
  /\ boot = Booted

\* the call returns
InferReturn ==
  /\ inf.state = "called"
  /\ inf' = [inf EXCEPT !.state = "returned",
                        !.result = infer_subject(TextChars(inf.parts))]
  /\ UNCHANGED <<Config, store, req, loop, served, faults, call, sources, knowledge_base,
                 embeddings, boot>>

NextInfer == InferReturn

SpecInfer == InitInfer /\ [][NextInfer]_vars

(***************************************************************************)
(* The construction of RAGService                                          *)
(***************************************************************************)
\* what a JSON file of the directory holds: nothing that parses, an array of
\* objects with the strings 'topic' and 'content', an empty array, an array of
\* values that are not objects, an array of objects without 'topic' and
\* 'content', an array of objects whose 'topic' and 'content' are no strings
FileKinds == {"absent", "ok", "empty", "bad_json", "bad_shape", "no_fields", "bad_types"}

\* json.load of a file of the given kind
FileData(kb_name, kind) ==
  IF kind = "ok"
    THEN IF kb_name = "grade_content"
           THEN <<Object({"topic", "content"}, Str("Fractions"), Str("Parts of a whole")),
                  Object({"topic", "content"}, Str("Plants"),
                         Str("Plants make food from sunlight"))>>
           ELSE <<Object({"topic", "content"}, Str("Festivals"),
                         Str("Harvest festivals of the region"))>>
  ELSE IF kind = "bad_shape" THEN <<NoItem>>
  ELSE IF kind = "no_fields" THEN <<Object({}, Str(""), Str(""))>>
  ELSE IF kind = "bad_types" THEN <<Object({"topic", "content"}, NotStr("5"), NotStr("None"))>>
  ELSE <<>>

\* item.get(key, default)
get(item, key, default) == IF key \in item.keys THEN item[key] ELSE default

\* line 395: the text "<topic>: <content>" of every item, a missing field
\* being the empty string
KbTexts(data) ==
  [i \in 1..Len(data) |->
     <<get(data[i], "topic", Str("")).repr, ": ", get(data[i], "content", Str("")).repr>>]

\* the vectors the embedding model gives the texts of a file
KbVectors(texts) == [i \in 1..Len(texts) |-> IF i % 2 = 1 THEN <<1, 0>> ELSE <<0, 1>>]

\* np.argmax: the first position of the greatest value
argmax(sims) ==
  CHOOSE i \in 1..Len(sims) :
    /\ \A j \in 1..Len(sims) : SimLeq(sims[j], sims[i])
    /\ \A j \in 1..(i - 1) : SimLess(sims[j], sims[i])

\* search_kb, lines 404-419
search_kb(qvec, kb_name, embs) ==
  IF ~embs[kb_name].present
    THEN [none |-> TRUE, value |-> NoItem]
    ELSE LET kb_data == embs[kb_name]
             sim == [i \in 1..Len(kb_data.embeddings) |->
                       cosine_similarity(qvec, kb_data.embeddings[i])]
             top_index == argmax(sim)
         IN  [none |-> FALSE, value |-> kb_data.data[top_index]]

\* two embedding models: one that tells no catalog entry from another, one
\* that tells the subjects apart
SubjectEncoder ==
  [i \in 1..N |-> IF LOCAL_KNOWLEDGE_BASE[i].subject = "Math" THEN <<1, 0>>
                   ELSE IF LOCAL_KNOWLEDGE_BASE[i].subject = "Science" THEN <<0, 1>>
                   ELSE <<2, 0>>]
StartupEncoders == {FlatEncoder, SubjectEncoder}

InitStartup ==
  /\ db = FALSE
  /\ api_key = FALSE
  /\ encoder \in StartupEncoders
  /\ educational_embeddings = NoIndex
  /\ store = [u \in Users |-> {}]
  /\ req = [s \in Slots |-> Idle]
  /\ loop = 0
  /\ served = 0
  /\ faults = 0
  /\ call = NoCall
  /\ inf = NoInfer
  /\ sources \in {NoSources} \cup {[dir |-> TRUE, files |-> f] : f \in [KbNames -> FileKinds]}
  /\ knowledge_base = NoKnowledgeBase
  /\ embeddings = NoEmbeddings
  /\ boot = [Booted EXCEPT !.pc = "start", !.model_ok = FALSE, !.curated_ok = FALSE]

\* line 318: SentenceTransformer(...) loads the model or raises, and line 335
\* raises again; lines 339-346: the files to read
LoadModel(ok) ==
  /\ boot.pc = "start"
  /\ boot' = IF ok
               THEN [boot EXCEPT !.pc = "files", !.model_ok = TRUE,
                                 !.todo = IF sources.dir
                                            THEN {n \in KbNames : sources.files[n] # "absent"}
                                            ELSE {}]
               ELSE [boot EXCEPT !.pc = "failed"]
  /\ UNCHANGED <<Config, store, req, loop, served, faults, call, inf, sources, knowledge_base,
                 embeddings>>

\* lines 346-356 and 388-402: one file of the directory, in whatever order
\* os.listdir gives them; everything the body raises is caught and logged
LoadFile(kb_name, encode_ok) ==
  /\ boot.pc = "files"
  /\ kb_name \in boot.todo
  /\ LET kind == sources.files[kb_name]
         data == FileData(kb_name, kind)
         parsed == kind # "bad_json"
         encodes == parsed /\ data # <<>> /\ \A i \in 1..Len(data) : data[i].is_object
     IN  /\ ~encode_ok => encodes
         /\ knowledge_base' = IF parsed
                                THEN [knowledge_base EXCEPT ![kb_name] =
                                        [present |-> TRUE, data |-> data]]
                                ELSE knowledge_base
         /\ embeddings' = IF encodes /\ encode_ok
                            THEN [embeddings EXCEPT ![kb_name] =
                                    [present |-> TRUE, data |-> data,
                                     embeddings |-> KbVectors(KbTexts(data))]]
                            ELSE embeddings
         /\ boot' = [boot EXCEPT !.todo = @ \ {kb_name},
                                 !.encode_failed = IF encode_ok THEN @ ELSE @ \cup {kb_name}]
  /\ UNCHANGED <<Config, store, req, loop, served, faults, call, inf, sources>>

\* lines 363-386 and 331: the curated index is built, or encode raises, the
\* error is logged and the index stays None; construction ends either way
BuildCurated(ok) ==
  /\ boot.pc = "files"
  /\ boot.todo = {}
  /\ educational_embeddings' = IF ok THEN BuiltIndex(encoder) ELSE NoIndex
  /\ boot' = [boot EXCEPT !.pc = "ready", !.curated_ok = ok]
  /\ UNCHANGED <<db, api_key, encoder, store, req, loop, served, faults, call, inf, sources,
                 knowledge_base, embeddings>>

\* the constructed service answers a retrieval
ServeQuery(subject, qvec) ==
  /\ boot.pc = "ready"
  /\ \E r \in get_educational_knowledge(5, subject, "What are ecosystems?", QueryTopK, qvec,
                                         educational_embeddings) :
       /\ qvec = EncodeError => r.encoded
       /\ call' = [NoCall EXCEPT !.state = "returned", !.grade = 5, !.subject = subject,
                                  !.query = "What are ecosystems?", !.qvec = qvec,
                                  !.top_k = QueryTopK, !.none = r.none, !.raised = r.raised,
                                  !.value = r.value, !.encoded = r.encoded, !.ranked = r.ranked]
  /\ UNCHANGED <<Config, store, req, loop, served, faults, Side>>

\* the constructed service searches a file knowledge base
SearchKb(kb_name, qvec) ==
  /\ boot.pc = "ready"
  /\ LET r == search_kb(qvec, kb_name, embeddings)
     IN  boot' = [boot EXCEPT !.searched = kb_name, !.found = ~r.none, !.hit = r.value]
  /\ UNCHANGED <<Config, store, req, loop, served, faults, call, inf, sources, knowledge_base,
                 embeddings>>

NextStartup ==
  \/ \E ok \in BOOLEAN : LoadModel(ok)
  \/ \E kb_name \in KbNames, encode_ok \in BOOLEAN : LoadFile(kb_name, encode_ok)
  \/ \E ok \in BOOLEAN : BuildCurated(ok)
  \/ \E subject \in {"Science", "Art"}, qvec \in {<<1, 1>>, EncodeError} : ServeQuery(subject, qvec)
  \/ \E kb_name \in KbNames, qvec \in {<<1, 0>>, <<0, 1>>} : SearchKb(kb_name, qvec)

SpecStartup == InitStartup /\ [][NextStartup]_vars

(***************************************************************************)
(* Properties                                                              *)
(***************************************************************************)
\* the documents of user u's thread, oldest first
Thread(u) == order_by_timestamp(store[u])

\* the catalog position of an entry
IndexOf(e) == CHOOSE i \in 1..N : LOCAL_KNOWLEDGE_BASE[i] = e

\* the similarity of the query of the call to a catalog entry
SimOf(e) == cosine_similarity(call.qvec, encoder[IndexOf(e)])

\* the call was given a non-empty query that the encoder can embed
Queried == call.query # None /\ call.query # "" /\ call.qvec # EncodeError

\* C1: the history a query loads is the (up to 10) most recent stored turns
\* of its user, oldest first, however many turns are stored.
C1_LoadsMostRecent ==
  \A s \in Slots :
    (req[s].pc = "retrieve" /\ req[s].load_ok)
      => req[s].loaded = LastK(Thread(req[s].user), HistoryLimit)

\* C2: the turn most recently appended to a user's thread is among the turns
\* the next query of that user loads, with the same role and text.
C2_RoundTrip ==
  \A s \in Slots :
    (req[s].pc = "retrieve" /\ req[s].load_ok /\ store[req[s].user] # {})
      => LET t == Thread(req[s].user)
             newest == t[Len(t)]
         IN  \E i \in 1..Len(req[s].loaded) :
               /\ req[s].loaded[i] = newest
               /\ req[s].history[i] = [role |-> newest.role, text |-> newest.text]

\* C3: process_educational_query, once called, always returns a string and
\* lets no exception out, whether the store load or save failed, the
\* generation timed out, failed in transport, or answered 200 with no
\* candidates, a candidate without parts or a part without 'text'.
C3_AlwaysReturnsString ==
  \A s \in Slots :
    req[s].pc = "done" /\ req[s].validated /\ req[s].outcome # "invalid_json"
      => (req[s].raised = None /\ req[s].result # None)

\* C4: when the generation call times out or fails in transport, the query
\* returns the fixed apology of that failure and raises nothing.
C4_FixedApology ==
  \A s \in Slots :
    (req[s].pc = "done" /\ req[s].outcome \in {"timeout", "transport"})
      => /\ req[s].raised = None
         /\ req[s].result = IF req[s].outcome = "timeout" THEN TimeoutApology
                            ELSE TransportApology

C4_Witness ==
  \E s \in Slots :
    req[s].pc = "done" /\ req[s].outcome = "timeout" /\ req[s].result = TimeoutApology

\* C5: one invocation posts at most one request to the generation API,
\* whatever comes back.
C5_AtMostOnePost == \A s \in Slots : req[s].gen_calls <= 1

C5_Witness ==
  \E s \in Slots :
    req[s].pc = "done" /\ req[s].gen_calls = 1 /\ req[s].outcome = "timeout"

\* C6: with the store working and the generation call successful, an
\* invocation appends exactly two turns to its user's thread: the user turn
\* with the question, then the model turn with the string it returns.
C6_AppendsTwoTurns ==
  \A s \in Slots :
    (db /\ req[s].outcome = "ok" /\ ~req[s].save_failed)
      => LET t == Thread(req[s].user)
             n == req[s].n0
         IN  /\ req[s].pc = "respond"
                  => /\ Len(t) = n + 2
                     /\ t[n + 1] = [role |-> "user", text |-> req[s].question,
                                    grade |-> req[s].grade, timestamp |-> n + 1]
                     /\ t[n + 2] = [role |-> "model", text |-> req[s].response,
                                    grade |-> req[s].grade, timestamp |-> n + 2]
             /\ req[s].pc = "done"
                  => /\ Len(t) >= n + 2
                     /\ t[n + 1].role = "user" /\ t[n + 1].text = req[s].question
                     /\ t[n + 2].role = "model" /\ t[n + 2].text = req[s].result

C6_Witness ==
  \E s \in Slots :
    /\ db /\ req[s].outcome = "ok" /\ ~req[s].save_failed
    /\ req[s].pc = "done"
    /\ Cardinality(store[req[s].user]) = req[s].n0 + 2

\* C7: when no catalog entry passes the filter, the call returns an empty
\* sequence and raises nothing, with a query or without.
C7_ReturnsEmptySequence ==
  (call.state = "returned" /\ Len(RelevantEntries(call.grade, call.subject)) = 0)
    => (~call.none /\ call.value = <<>> /\ call.raised = None)

\* C8: for a non-empty query and top_k >= 1 the call returns at most top_k
\* entries, all of the requested grade and with a matching subject, in
\* non-increasing order of similarity, and leaves out no filtered entry of
\* strictly higher similarity than a returned one.
C8_RankedTopK ==
  (call.state = "returned" /\ Queried /\ call.top_k >= 1)
    => LET v == call.value
       IN  /\ Len(v) <= call.top_k
           /\ \A i \in 1..Len(v) :
                /\ v[i].grade = call.grade
                /\ Contains(Lower(Chars(v[i].subject)), Lower(Chars(call.subject)))
           /\ \A i \in 1..(Len(v) - 1) : SimLeq(SimOf(v[i + 1]), SimOf(v[i]))
           /\ ~call.none =>
                \A j \in 1..N :
                  (/\ PassesFilter(LOCAL_KNOWLEDGE_BASE[j], call.grade, call.subject)
                   /\ \A i \in 1..Len(v) : v[i] # LOCAL_KNOWLEDGE_BASE[j])
                    => \A i \in 1..Len(v) :
                         ~SimLess(SimOf(v[i]), SimOf(LOCAL_KNOWLEDGE_BASE[j]))

\* C9: entries of equal similarity come in catalog order, and at the top_k
\* cut the earlier one is the one returned.
C9_TiesInCatalogOrder ==
  (call.state = "returned" /\ call.ranked /\ call.top_k >= 1)
    => LET v == call.value
       IN  /\ \A i, k \in 1..Len(v) :
                (i < k /\ SimEq(SimOf(v[i]), SimOf(v[k]))) => IndexOf(v[i]) < IndexOf(v[k])
           /\ \A j \in 1..N :
                (/\ PassesFilter(LOCAL_KNOWLEDGE_BASE[j], call.grade, call.subject)
                 /\ \A i \in 1..Len(v) : v[i] # LOCAL_KNOWLEDGE_BASE[j])
                  => \A i \in 1..Len(v) :
                       SimEq(SimOf(v[i]), SimOf(LOCAL_KNOWLEDGE_BASE[j])) => IndexOf(v[i]) < j

\* C10: with an empty or absent query the call returns the first top_k
\* entries that pass the filter, in catalog order, and neither embeds the
\* query nor computes a similarity.
C10_NoQueryFirstTopK ==
  (call.state = "returned" /\ (call.query = None \/ call.query = ""))
    => /\ call.value = Take(RelevantEntries(call.grade, call.subject), call.top_k)
       /\ call.raised = None
       /\ ~call.encoded
       /\ ~call.ranked

C10_Witness ==
  /\ call.state = "returned"
  /\ call.query = ""
  /\ call.top_k = 2
  /\ Len(RelevantEntries(call.grade, call.subject)) > 2
  /\ call.value = Take(RelevantEntries(call.grade, call.subject), 2)

\* the categories in the order infer_subject tries them, and their keywords
Categories == <<"Math", "Science", "Social", "English">>
KeywordsOf(c) ==
  IF c = "Math" THEN math_keywords
  ELSE IF c = "Science" THEN science_keywords
  ELSE IF c = "Social" THEN social_keywords
  ELSE english_keywords

\* the text of the call has a keyword of category c, whatever its case
HasKeyword(c) ==
  LET text_lower == Lower(TextChars(inf.parts))
  IN  \E k \in KeywordsOf(c) : Contains(text_lower, Chars(k))

\* C11: infer_subject is total and changes nothing: every call returns, and
\* returns the first category, in the order Math, Science, Social, English,
\* one of whose keywords occurs in the lower-cased text, and English when no
\* keyword occurs; a text with a Math and a Science keyword gives Math
C11_FirstCategoryInOrder ==
  /\ inf.state = "called" =>
       \E i \in 1..4 : infer_subject(TextChars(inf.parts)) = Categories[i]
  /\ inf.state = "returned" =>
       LET has == [i \in 1..4 |-> HasKeyword(Categories[i])]
       IN  /\ IF \E i \in 1..4 : has[i]
                THEN \E i \in 1..4 :
                       /\ has[i]
                       /\ \A j \in 1..(i - 1) : ~has[j]
                       /\ inf.result = Categories[i]
                ELSE inf.result = "English"
           /\ has[1] /\ has[2] => inf.result = "Math"
       /\ store = [u \in Users |-> {}]
       /\ req = [s \in Slots |-> Idle]
       /\ call = NoCall

C11_Witness ==
  /\ inf.state = "returned"
  /\ HasKeyword("Math")
  /\ HasKeyword("Science")
  /\ inf.result = "Math"

\* C12 as the specification states it: infer_subject of
\* "What is 2+2 and how do plants grow?" is Math
C12_PlantsQuestionIsMath ==
  inf.state = "returned" /\ inf.parts = <<"What is 2+2 and how do plants grow?">>
    => inf.result = "Math"

\* C12, amended: "What is 2+2 and how do plants grow?" has no keyword of any
\* category, and infer_subject returns the default, English
C12_PlantsQuestionIsEnglish ==
  inf.state = "returned" /\ inf.parts = <<"What is 2+2 and how do plants grow?">>
    => /\ \A i \in 1..4 : ~HasKeyword(Categories[i])
       /\ inf.result = "English"

C12_Witness ==
  /\ inf.state = "returned"
  /\ inf.parts = <<"What is 2+2 and how do plants grow?">>
  /\ inf.result = "English"

\* the grounding section of a prompt carries the content of entry e
Grounds(prompt, e) ==
  \E j \in 1..Len(prompt.knowledge) :
    /\ Len(prompt.knowledge[j]) = 4
    /\ prompt.knowledge[j][2] = e.chapter_name
    /\ prompt.knowledge[j][4] = e.content

\* C13: the grounding section of a prompt is determined by the retrieval:
\* it carries the content of every retrieved entry (for "What are
\* ecosystems?" at grade 5 the content of "Ecosystems and Environment"), and
\* it is the no-knowledge marker when the retrieval returned nothing
C13_GroundingFromRetrieval ==
  \A s \in Slots :
    req[s].prompt # NoPrompt =>
      /\ \A i \in 1..Len(req[s].entries) : Grounds(req[s].prompt, req[s].entries[i])
      /\ req[s].entries # <<>> => Len(req[s].prompt.knowledge) = Len(req[s].entries)
      /\ req[s].entries = <<>> => req[s].prompt.knowledge = << <<NoKnowledgeMarker>> >>
      /\ req[s].question = "What are ecosystems?" /\ req[s].grade = 5 /\ ~req[s].entries_none =>
           \E i \in 1..N :
             /\ LOCAL_KNOWLEDGE_BASE[i].chapter_name = "Ecosystems and Environment"
             /\ Grounds(req[s].prompt, LOCAL_KNOWLEDGE_BASE[i])

C13_Witness ==
  \E s \in Slots :
    /\ req[s].pc = "posted"
    /\ req[s].question = "What are ecosystems?"
    /\ req[s].grade = 5
    /\ \E i \in 1..N :
         /\ LOCAL_KNOWLEDGE_BASE[i].chapter_name = "Ecosystems and Environment"
         /\ Grounds(req[s].prompt, LOCAL_KNOWLEDGE_BASE[i])

\* C14: one slow request stalls no other: while the handler of one request
\* waits for its store read or its generation call, the handler of a waiting
\* request of another user can start
C14_SlowRequestStallsNoOne ==
  \A s \in Slots, t \in Slots :
    /\ req[s].pc \in {"load", "posted"}
    /\ req[t].pc = "pending"
    /\ req[t].user # req[s].user
    => ENABLED Start(t)

\* an element of a source has the format of the auxiliary catalogs: an
\* object with at least the string fields 'topic' and 'content'
Conforms(item) ==
  /\ item.is_object
  /\ {"topic", "content"} \subseteq item.keys
  /\ item.topic.is_str
  /\ item.content.is_str

\* the file of a name is well-formed: it parses to a non-empty array whose
\* elements all have the format
WellFormed(kb_name) ==
  /\ sources.dir
  /\ sources.files[kb_name] \notin {"absent", "bad_json"}
  /\ LET data == FileData(kb_name, sources.files[kb_name])
     IN  data # <<>> /\ \A i \in 1..Len(data) : Conforms(data[i])

\* the file of a name is malformed: it does not parse, or an element of its
\* array has not the format
Malformed(kb_name) ==
  /\ sources.dir
  /\ sources.files[kb_name] # "absent"
  /\ \/ sources.files[kb_name] = "bad_json"
     \/ LET data == FileData(kb_name, sources.files[kb_name])
        IN  \E i \in 1..Len(data) : ~Conforms(data[i])

\* C15: loading the JSON sources isolates their failures: whatever sources
\* there are and whichever of them are malformed, loading does not raise,
\* every well-formed source is loaded and can be searched, and every
\* malformed source is skipped: it is in no dictionary of the service and a
\* search of it finds nothing (stated for the startups in which the
\* embedding model embedded every text it was given)
C15_IsolatesSourceFailures ==
  /\ boot.pc = "failed" => ~boot.model_ok
  /\ (boot.pc = "ready" /\ boot.encode_failed = {}) =>
       \A n \in KbNames :
         /\ WellFormed(n) =>
              LET data == FileData(n, sources.files[n])
              IN  /\ knowledge_base[n] = [present |-> TRUE, data |-> data]
                  /\ embeddings[n].present
                  /\ embeddings[n].data = data
                  /\ Len(embeddings[n].embeddings) = Len(data)
                  /\ \A qvec \in QueryVectors :
                       /\ ~search_kb(qvec, n, embeddings).none
                       /\ \E i \in 1..Len(data) : search_kb(qvec, n, embeddings).value = data[i]
                  /\ boot.searched = n => boot.found
         /\ Malformed(n) =>
              /\ ~knowledge_base[n].present
              /\ ~embeddings[n].present
              /\ \A qvec \in QueryVectors : search_kb(qvec, n, embeddings).none
              /\ boot.searched = n => ~boot.found

\* C16: initialization errors are fatal: the construction succeeds only
\* with the embedding model loaded and the curated index built, so every
\* query is served with the index
C16_InitErrorsFatal ==
  /\ boot.pc = "ready" => boot.model_ok /\ educational_embeddings.built
  /\ call.state = "returned" => educational_embeddings.built

\* C17: whenever the curated index exists it has one vector for each catalog
\* entry, the vector at position i being the embedding of the text of catalog
\* entry i, before and after every query
C17_IndexMatchesCatalog ==
  educational_embeddings.built =>
    /\ Len(educational_embeddings.embeddings) = N
    /\ \A i \in 1..N :
         educational_embeddings.embeddings[i] =
           encode(encoder, <<Render(LOCAL_KNOWLEDGE_BASE[i])>>)[1]

C17_Witness ==
  /\ educational_embeddings.built
  /\ encoder = SubjectEncoder
  /\ call.state = "returned"
  /\ call.ranked

\* the store failed the request in slot s: there is no store, the load
\* raised, or an add raised
StoreFailed(s) == ~db \/ ~req[s].load_ok \/ req[s].save_failed

\* the request in slot s went through retrieval and generation and got what
\* the generation step produced, nothing of the store's failure
AnsweredFromGeneration(s) ==
  /\ req[s].subject # None
  /\ IF api_key
       THEN /\ req[s].gen_calls = 1
            /\ req[s].outcome # None
            /\ req[s].raised = AskGeminiReturn(req[s].outcome, None).raised
       ELSE /\ req[s].gen_calls = 0
            /\ req[s].raised = None
            /\ req[s].response = NoKeyMessage
  /\ req[s].raised = None => req[s].result = req[s].response

\* the history of the request in slot s holds no stored turn
NoStoredHistory(s) ==
  /\ req[s].loaded = <<>>
  /\ req[s].history = <<[role |-> "user", text |-> req[s].question]>>
  /\ req[s].prompt # NoPrompt => req[s].prompt.history = req[s].history

\* C18 as the specification states it: with no store, or a load or an add
\* that raises, the query is still answered from retrieval and generation,
\* the prompt has no stored turn when the store or the load failed, and no
\* turn is saved when the store or an add failed
C18_NoTurnSaved ==
  \A s \in Slots :
    req[s].pc = "done" /\ req[s].validated /\ StoreFailed(s) =>
      /\ AnsweredFromGeneration(s)
      /\ ~db \/ ~req[s].load_ok => NoStoredHistory(s)
      /\ ~db \/ req[s].save_failed => Cardinality(store[req[s].user]) = req[s].n0

\* C18, amended: with no store, or a load or an add that raises, the query
\* is still answered from retrieval and generation and the failure is not
\* surfaced; the prompt has no stored turn when the store or the load
\* failed; nothing is saved with no store or when the first add raised, and
\* the user turn alone is saved when the second add raised
C18_DegradesPerFailure ==
  \A s \in Slots :
    req[s].pc = "done" /\ req[s].validated /\ StoreFailed(s) =>
      /\ AnsweredFromGeneration(s)
      /\ ~db \/ ~req[s].load_ok => NoStoredHistory(s)
      /\ ~db => req[s].saved = 0 /\ Cardinality(store[req[s].user]) = req[s].n0
      /\ req[s].save_failed =>
           /\ req[s].saved \in {0, 1}
           /\ Cardinality(store[req[s].user]) = req[s].n0 + req[s].saved
           /\ req[s].saved = 1 =>
                LET last == Thread(req[s].user)[req[s].n0 + 1]
                IN  last.role = "user" /\ last.text = req[s].question

C18_Witness ==
  \E s \in Slots :
    /\ req[s].pc = "done"
    /\ db
    /\ req[s].save_failed
    /\ req[s].saved = 1
    /\ req[s].result \in GenTexts
    /\ Cardinality(store[req[s].user]) = req[s].n0 + 1

\* the request in slot s breaks a rule of the claim: grade outside 1..12,
\* question empty or white space, user_id empty
BreaksInputRule(r) ==
  \/ r.grade < 1
  \/ r.grade > 12
  \/ Chars(r.question) = <<>>
  \/ IsBlank(Chars(r.question))
  \/ Chars(r.user) = <<>>

\* C19: a request whose grade is outside 1..12, whose question is empty or
\* white space, or whose user_id is empty is answered with the client-input
\* error 422 before any inference, retrieval, generation call or store
\* access, and the store is as it was
C19_InvalidRejectedFirst ==
  /\ [](\A s \in Slots :
          req[s].pc # "idle" /\ BreaksInputRule(req[s]) =>
            /\ req[s].pc = "done"
            /\ req[s].status = 422
            /\ req[s].subject = None
            /\ req[s].entries = <<>>
            /\ req[s].gen_calls = 0
            /\ req[s].prompt = NoPrompt
            /\ ~req[s].load_ok
            /\ req[s].loaded = <<>>
            /\ req[s].saved = 0)
  /\ [][\A s \in Slots :
          req[s].pc = "idle" /\ req'[s].pc # "idle" /\ BreaksInputRule(req'[s]) =>
            store' = store]_vars

C19_Witness ==
  \E s \in Slots :
    /\ req[s].pc = "done"
    /\ req[s].grade = 13
    /\ req[s].status = 422
    /\ store[req[s].user] # {}

\* C20: whatever exception the processing of a validated request raises,
\* ValueError included, the endpoint answers 500 and never 422
C20_ExceptionsAre500 ==
  \A s \in Slots :
    req[s].pc = "done" /\ req[s].validated /\ req[s].raised # None => req[s].status = 500

\* C21: the requests of a user, one after another with the store working,
\* append their turns in request order: the turns of the request being
\* handled come after every turn that was in the thread when it started,
\* its user turn first and its model turn after it
C21_AppendedInRequestOrder ==
  \A s \in Slots :
    loop = s /\ req[s].validated =>
      LET thread == store[req[s].user]
          n == req[s].n0
          Before(d) == {e \in thread : e.timestamp < d.timestamp}
      IN  /\ Cardinality(thread) = n + req[s].saved
          /\ req[s].saved >= 1 =>
               \E d \in thread :
                 /\ d.role = "user"
                 /\ d.text = req[s].question
                 /\ Cardinality(Before(d)) = n
          /\ req[s].saved = 2 =>
               \E d \in thread :
                 /\ d.role = "model"
                 /\ d.text = req[s].response
                 /\ Cardinality(Before(d)) = n + 1

C21_Witness ==
  \E s \in Slots :
    /\ req[s].pc = "done"
    /\ req[s].saved = 2
    /\ req[s].n0 = 2
    /\ LET t == Thread(req[s].user)
       IN  /\ Len(t) = 4
           /\ t[1].role = "user" /\ t[2].role = "model"
           /\ t[3].role = "user" /\ t[4].role = "model"
           /\ t[2].timestamp < t[3].timestamp

\* C22: the threads of different users are isolated, however the requests
\* interleave: a query loads turns of its own user's thread only, and while
\* it is handled the thread of every other user stays as it is
C22_ThreadsIsolated ==
  /\ [](\A s \in Slots :
          loop = s /\ req[s].validated =>
            \A i \in 1..Len(req[s].loaded) : req[s].loaded[i] \in store[req[s].user])
  /\ [][\A s \in Slots :
          loop = s /\ req[s].validated =>
            \A v \in Users \ {req[s].user} : store'[v] = store[v]]_vars

C22_Witness ==
  \E s \in Slots, t \in Slots :
    /\ req[s].pc = "done"
    /\ req[s].user = "u1"
    /\ req[s].saved = 2
    /\ req[t].pc = "pending"
    /\ req[t].user = "u2"
    /\ store["u2"] = PriorThread(MaxPrior)

\* C23 as the specification states it: the history of a prompt has at most
\* 5 turns, and when 5 or more stored turns were loaded it is the last 5 of
\* the loaded turns
C23_LastFiveLoaded ==
  \A s \in Slots :
    req[s].prompt # NoPrompt =>
      /\ Len(req[s].prompt.history) <= PromptWindow
      /\ Len(req[s].loaded) >= PromptWindow =>
           req[s].prompt.history = LastK(RoleText(req[s].loaded), PromptWindow)

\* C23, amended: the history of a prompt has at most 5 turns: it ends with
\* the question being asked, as a user turn, and before it come the last
\* loaded turns, 4 of them when 4 or more were loaded
C23_LastFourAndQuestion ==
  \A s \in Slots :
    req[s].prompt # NoPrompt =>
      LET h == req[s].prompt.history
          stored == RoleText(req[s].loaded)
          k == IF Len(stored) >= PromptWindow - 1 THEN PromptWindow - 1 ELSE Len(stored)
      IN  /\ Len(h) <= PromptWindow
          /\ Len(h) = k + 1
          /\ h[k + 1] = [role |-> "user", text |-> req[s].question]
          /\ \A i \in 1..k : h[i] = stored[Len(stored) - k + i]

C23_Witness ==
  \E s \in Slots :
    /\ req[s].pc = "posted"
    /\ Len(req[s].loaded) = HistoryLimit
    /\ Len(req[s].prompt.history) = PromptWindow
    /\ req[s].prompt.history[PromptWindow].text = req[s].question

\* C24: two concurrent queries of one user can interleave their history
\* writes.  Run by two processes, the queries keep each its own order and no
\* more: what a query loaded is stored, none of the turns it loaded or wrote
\* is lost, and its user turn is stored before its model turn.  The state in
\* which the turns of the two interleave after loads that saw none of them
\* is C24_Witness.
C24_OnlyOwnOrderKept ==
  \A s \in Slots :
    req[s].validated /\ req[s].pc \notin {"idle", "pending"} =>
      LET thread == store[req[s].user]
      IN  /\ \A i \in 1..Len(req[s].loaded) : req[s].loaded[i] \in thread
          /\ Cardinality(thread) >= Len(req[s].loaded) + req[s].saved
          /\ req[s].saved >= 1 =>
               \E d \in thread :
                 /\ d.role = "user" /\ d.text = req[s].question
                 /\ req[s].saved = 2 =>
                      \E e \in thread :
                        /\ e.role = "model" /\ e.text = req[s].response
                        /\ d.timestamp < e.timestamp

\* both queries of the user loaded an empty history, and the user turn of
\* the second lies between the user turn and the model turn of the first
C24_Witness ==
  /\ \A s \in Slots :
       /\ req[s].pc = "done" /\ req[s].user = "u1"
       /\ req[s].load_ok /\ req[s].loaded = <<>>
       /\ req[s].saved = 2
  /\ req[1].question # req[2].question
  /\ LET t == Thread("u1")
     IN  /\ Len(t) = 4
         /\ t[1].role = "user" /\ t[1].text = req[1].question
         /\ t[2].role = "user" /\ t[2].text = req[2].question
         /\ t[3].role = "model"
         /\ t[4].role = "model"

\* C25: retrieval and conversation memory are independent: inferring the
\* subject and retrieving change no thread, what is retrieved are entries of
\* the catalog as they are, and no step of a query changes the embedding
\* index
C25_RetrievalMemoryIndependent ==
  /\ [](\A s \in Slots :
          \A i \in 1..Len(req[s].entries) :
            \E j \in 1..N : req[s].entries[i] = LOCAL_KNOWLEDGE_BASE[j])
  /\ [][\A s \in Slots :
          req[s].pc = "retrieve" /\ req'[s].pc # "retrieve" => store' = store]_vars
  /\ [][educational_embeddings' = educational_embeddings /\ encoder' = encoder]_vars

C25_Witness ==
  \E s \in Slots :
    /\ req[s].pc = "done"
    /\ req[s].saved = 2
    /\ req[s].entries # <<>>
    /\ educational_embeddings = BuiltIndex(encoder)

\* lines 512, 559-568: the strings ask_gemini returns in place of an answer
FailureTexts == {NoKeyMessage, ShapeApology, TimeoutApology, TransportApology}

\* the generation step of the request in slot s is over and did not succeed:
\* there was no API key, or the POST did not come back with a text
GenerationFailed(s) ==
  /\ req[s].pc \in {"save_user", "save_model", "respond", "done"}
  /\ req[s].subject # None
  /\ ~api_key \/ (req[s].outcome # None /\ req[s].outcome # "ok")

\* C26: a query whose generation step did not succeed appends no turn to the
\* user's thread: no apology or error string is stored as a model turn, and
\* none is in the history of a prompt
C26_FailedGenerationStoresNothing ==
  /\ \A s \in Slots : GenerationFailed(s) => req[s].saved = 0
  /\ \A u \in Users : \A d \in store[u] : d.role = "model" => d.text \notin FailureTexts
  /\ \A s \in Slots :
       req[s].prompt # NoPrompt =>
         \A i \in 1..Len(req[s].prompt.history) : req[s].prompt.history[i].text \notin FailureTexts

\* C27: when process_educational_query returns the string of the missing API
\* key, the chat endpoint answers with status 500, never with a 200 that
\* carries the string
C27_NoKeyAnswers500 ==
  \A s \in Slots :
    req[s].pc = "done" /\ req[s].raised = None /\ req[s].response = NoKeyMessage
      => req[s].status = 500

\* C28: for every top_k >= 0 and every grade and subject with n entries
\* passing the filter, a call whose query (if any) was embedded returns
\* exactly min(top_k, n) entries, with a query and without one
C28_SizeIsMinTopK ==
  (call.state = "returned" /\ call.qvec # EncodeError)
    => LET n == Len(RelevantEntries(call.grade, call.subject))
       IN  Len(call.value) = IF call.top_k < n THEN call.top_k ELSE n

\* C29: in a ranked retrieval the filtered entries and the index rows taken
\* for them line up: the j-th row is the row of the catalog entry that is the
\* j-th filtered entry, and the entries come back in non-increasing order of
\* the score of their own embedding
C29_ScoredWithOwnEmbedding ==
  (call.state = "returned" /\ call.ranked)
    => LET relevant_entries == RelevantEntries(call.grade, call.subject)
           relevant_indices == RelevantIndices(relevant_entries)
           v == call.value
           Score(e) == cosine_similarity(call.qvec,
                                         educational_embeddings.embeddings[IndexOf(e)])
       IN  /\ Len(relevant_indices) = Len(relevant_entries)
           /\ \A j \in 1..Len(relevant_entries) :
                LOCAL_KNOWLEDGE_BASE[relevant_indices[j]] = relevant_entries[j]
           /\ \A i \in 1..(Len(v) - 1) : SimLeq(Score(v[i + 1]), Score(v[i]))

C29_Witness ==
  /\ call.state = "returned"
  /\ call.ranked
  /\ call.grade = 5
  /\ Len(call.value) >= 2
  /\ IndexOf(call.value[1]) > IndexOf(call.value[2])
  /\ SimLess(SimOf(call.value[2]), SimOf(call.value[1]))

\* C30: whatever writes the store failed, every stored model turn of a user
\* comes right after a user turn, the model turn of a query is not written
\* when the write of its user turn failed, and so a user has at least as many
\* stored user turns as model turns
C30_ModelTurnFollowsUserTurn ==
  /\ \A u \in Users :
       /\ Cardinality({d \in store[u] : d.role = "user"})
            >= Cardinality({d \in store[u] : d.role = "model"})
       /\ \A d \in store[u] :
            d.role = "model" =>
              \E e \in store[u] :
                /\ e.role = "user"
                /\ e.timestamp < d.timestamp
                /\ \A f \in store[u] : ~(e.timestamp < f.timestamp /\ f.timestamp < d.timestamp)
  /\ \A s \in Slots :
       (loop = s /\ req[s].validated /\ req[s].save_failed /\ req[s].saved = 0)
         => Cardinality(store[req[s].user]) = req[s].n0

C30_Witness ==
  \E s \in Slots :
    /\ req[s].pc = "done"
    /\ db /\ req[s].outcome = "ok"
    /\ req[s].save_failed /\ req[s].saved = 0
    /\ req[s].n0 > 0
    /\ Cardinality(store[req[s].user]) = req[s].n0

====
